---- MODULE Spec2Model ----
(***************************************************************************)
(* jsonselect: select(selector, obj) = Parser(obj).parse(lex(selector)).   *)
(*                                                                         *)
(* A selector is a sequence of one-character strings, a Python string as   *)
(* the scanner reads it.  A JSON document is a record                      *)
(*   [cls, sv, keys, items]                                                *)
(* cls the Python class json.load gives the value, sv a scalar's text,     *)
(* keys a dict's keys in iteration order, items the children of a list or  *)
(* the values of a dict (in the order of keys).                            *)
(***************************************************************************)
EXTENDS Integers, Sequences, FiniteSets, TLC

(***************************************************************************)
(* Characters and pattern helpers                                          *)
(***************************************************************************)
Digit == {"0", "1", "2", "3", "4", "5", "6", "7", "8", "9"}

Lower == {"a", "b", "c", "d", "e", "f", "g", "h", "i", "j", "k", "l", "m",
          "n", "o", "p", "q", "r", "s", "t", "u", "v", "w", "x", "y", "z"}

Upper == {"A", "B", "C", "D", "E", "F", "G", "H", "I", "J", "K", "L", "M",
          "N", "O", "P", "Q", "R", "S", "T", "U", "V", "W", "X", "Y", "Z"}

\* \s of the re module (the vertical tab has no TLA+ escape and is left out)
Space == {" ", "\t", "\n", "\r", "\f"}

\* \w
WordChar == Lower \cup Upper \cup Digit \cup {"_"}

\* [_a-zA-Z0-9\-], the only continuation class of the identifier rule an
\* ASCII character can be in (the class [^\u0000-\u0177] needs a code point
\* above U+0177)
IdentCont == Lower \cup Upper \cup Digit \cup {"_", "-"}

\* [^\0-\0177] in a non-raw literal is [^\x00-\x0f7]: every character but
\* the control characters 0..15 and the digit 7
IdentStartExcluded == {"7", "\t", "\n", "\r", "\f"}

\* the character at position i, "" past the end
At(s, i) == IF i >= 1 /\ i <= Len(s) THEN s[i] ELSE ""

StartsWith(s, i, w) ==
    /\ i + Len(w) - 1 <= Len(s)
    /\ SubSeq(s, i, i + Len(w) - 1) = w

\* length of the longest run of characters of class at position i
RECURSIVE RunLen(_, _, _)
RunLen(s, i, class) ==
    IF At(s, i) \in class THEN 1 + RunLen(s, i + 1, class) ELSE 0

\* p1|p2|...: the length of the first alternative that matches at i, else 0
RECURSIVE FirstAlt(_, _, _)
FirstAlt(s, i, alts) ==
    IF alts = <<>> THEN 0
    ELSE IF StartsWith(s, i, Head(alts)) THEN Len(Head(alts))
    ELSE FirstAlt(s, i, Tail(alts))

(***************************************************************************)
(* Keywords of the scanner's patterns                                      *)
(***************************************************************************)
K_string == <<"s", "t", "r", "i", "n", "g">>
K_boolean == <<"b", "o", "o", "l", "e", "a", "n">>
K_null == <<"n", "u", "l", "l">>
K_array == <<"a", "r", "r", "a", "y">>
K_object == <<"o", "b", "j", "e", "c", "t">>
K_number == <<"n", "u", "m", "b", "e", "r">>
K_root == <<"r", "o", "o", "t">>
K_first_child == <<"f", "i", "r", "s", "t", "-", "c", "h", "i", "l", "d">>
K_last_child == <<"l", "a", "s", "t", "-", "c", "h", "i", "l", "d">>
K_only_child == <<"o", "n", "l", "y", "-", "c", "h", "i", "l", "d">>
K_nth_child == <<"n", "t", "h", "-", "c", "h", "i", "l", "d">>
K_nth_last_child ==
    <<"n", "t", "h", "-", "l", "a", "s", "t", "-", "c", "h", "i", "l", "d">>
K_has == <<"h", "a", "s">>
K_expr == <<"e", "x", "p", "r">>
K_val == <<"v", "a", "l">>
K_contains == <<"c", "o", "n", "t", "a", "i", "n", "s">>
K_true == <<"t", "r", "u", "e">>
K_false == <<"f", "a", "l", "s", "e">>
K_odd == <<"o", "d", "d">>
K_even == <<"e", "v", "e", "n">>

(***************************************************************************)
(* SCANNER: the match length of each lexicon pattern at position i of s    *)
(* (0: no match)                                                           *)
(***************************************************************************)
\* [~*,>\)\(]
P_OPER(s, i) == IF At(s, i) \in {"~", "*", ",", ">", ")", "("} THEN 1 ELSE 0

\* \s
P_EMPTY(s, i) == IF At(s, i) \in Space THEN 1 ELSE 0

\* (-?\d+(\.\d*)([eE][+\-]?\d+)?)
P_FLOAT(s, i) ==
    LET sign == IF At(s, i) = "-" THEN 1 ELSE 0
        int  == RunLen(s, i + sign, Digit)
        dot  == i + sign + int
        frac == RunLen(s, dot + 1, Digit)
        e    == dot + 1 + frac
        esgn == IF At(s, e + 1) \in {"+", "-"} THEN 1 ELSE 0
        edig == RunLen(s, e + 1 + esgn, Digit)
        exp  == IF At(s, e) \in {"e", "E"} /\ edig > 0 THEN 1 + esgn + edig
                ELSE 0
    IN  IF int > 0 /\ At(s, dot) = "." THEN sign + int + 1 + frac + exp ELSE 0

\* \d+
P_INT(s, i) == RunLen(s, i, Digit)

\* string|boolean|null|array|object|number
P_TYPE(s, i) ==
    FirstAlt(s, i, <<K_string, K_boolean, K_null, K_array, K_object, K_number>>)

\* the body ([^"\\]|\\[^"])* of a quoted identifier, from position i
RECURSIVE QuotedBody(_, _)
QuotedBody(s, i) ==
    IF At(s, i) = "" \/ At(s, i) = "\"" THEN 0
    ELSE IF At(s, i) = "\\"
         THEN IF At(s, i + 1) \notin {"", "\""}
              THEN 2 + QuotedBody(s, i + 2) ELSE 0
    ELSE 1 + QuotedBody(s, i + 1)

\* \.?\"([^"\\]|\\[^"])*\"
P_QUOTED_IDENTIFIER(s, i) ==
    LET dot  == IF At(s, i) = "." THEN 1 ELSE 0
        body == QuotedBody(s, i + dot + 1)
    IN  IF At(s, i + dot) = "\"" /\ At(s, i + dot + 1 + body) = "\""
        THEN dot + 1 + body + 1 ELSE 0

\* \.([_a-zA-Z]|[^\0-\0177]|\\[^\s0-9a-fA-F])(?:[_a-zA-Z0-9\-]|...)*
\* The third alternative of both groups reads, after Python's string
\* escapes, \[ ^ ...: a literal "[" and then the start-of-string anchor,
\* which cannot match after the dot.
P_IDENTIFIER(s, i) ==
    IF /\ At(s, i) = "."
       /\ At(s, i + 1) # ""
       /\ \/ At(s, i + 1) \in Lower \cup Upper \cup {"_"}
          \/ At(s, i + 1) \notin IdentStartExcluded
    THEN 2 + RunLen(s, i + 2, IdentCont)
    ELSE 0

\* :(root|first-child|last-child|only-child)
P_PCLASS(s, i) ==
    LET n == FirstAlt(s, i + 1,
                 <<K_root, K_first_child, K_last_child, K_only_child>>)
    IN  IF At(s, i) = ":" /\ n > 0 THEN 1 + n ELSE 0

\* :(nth-child|nth-last-child|has|expr|val|contains)
P_PCLASS_FUNC(s, i) ==
    LET n == FirstAlt(s, i + 1, <<K_nth_child, K_nth_last_child, K_has,
                                  K_expr, K_val, K_contains>>)
    IN  IF At(s, i) = ":" /\ n > 0 THEN 1 + n ELSE 0

\* (&&|\|\||[\$\^<>!\*]=|[=+\-*/%<>])
P_BINOP(s, i) ==
    IF StartsWith(s, i, <<"&", "&">>) \/ StartsWith(s, i, <<"|", "|">>)
    THEN 2
    ELSE IF At(s, i) \in {"$", "^", "<", ">", "!", "*"} /\ At(s, i + 1) = "="
    THEN 2
    ELSE IF At(s, i) \in {"=", "+", "-", "*", "/", "%", "<", ">"} THEN 1
    ELSE 0

\* true|false|null
P_VALS(s, i) == FirstAlt(s, i, <<K_true, K_false, K_null>>)

\* \w+
P_WORD(s, i) == RunLen(s, i, WordChar)

(***************************************************************************)
(* Python values a token carries: a str (its characters), an int, a float  *)
(* (kept as the text float() was given) or a bool                          *)
(***************************************************************************)
PyStr(chars) == [py |-> "str", str |-> chars, num |-> 0]

PyInt(n) == [py |-> "int", str |-> <<>>, num |-> n]

PyFloat(text) == [py |-> "float", str |-> text, num |-> 0]

PyTrue == [py |-> "bool", str |-> <<>>, num |-> 1]

PyFalse == [py |-> "bool", str |-> <<>>, num |-> 0]

\* bool(v): the empty string, 0, 0.0 and False are false
Truthy(v) ==
    CASE v.py = "str" -> v.str # <<>>
      [] v.py = "float" ->
            \E k \in 1..Len(v.str) :
                /\ v.str[k] \in Digit \ {"0"}
                /\ \A j \in 1..k : v.str[j] \notin {"e", "E"}
      [] OTHER -> v.num # 0

\* v == 'chars' for a string literal: no int or bool equals a string
PyEq(v, chars) == v.py = "str" /\ v.str = chars

DigitVal(c) ==
    CHOOSE n \in 0..9 :
        <<"0", "1", "2", "3", "4", "5", "6", "7", "8", "9">>[n + 1] = c

\* int(token) of a run of digits
RECURSIVE IntOf(_)
IntOf(chars) ==
    IF chars = <<>> THEN 0
    ELSE 10 * IntOf(SubSeq(chars, 1, Len(chars) - 1))
         + DigitVal(chars[Len(chars)])

\* token.replace('"', '')
StripQuotes(chars) == SelectSeq(chars, LAMBDA c : c # "\"")

Token(type, value) == [type |-> type, value |-> value]

(***************************************************************************)
(* The token actions S_*                                                   *)
(***************************************************************************)
S_TYPE(token) == Token("type", PyStr(token))

S_IDENTIFIER(token) == Token("identifier", PyStr(Tail(token)))

\* token is never empty here; [1:] of what is left after the quotes go
S_QUOTED_IDENTIFIER(token) ==
    LET bare == StripQuotes(token)
    IN  Token("identifier", PyStr(IF bare = <<>> THEN <<>> ELSE Tail(bare)))

S_PCLASS(token) == Token("pclass", PyStr(Tail(token)))

S_PCLASS_FUNC(token) == Token("pclass_func", PyStr(Tail(token)))

S_OPER(token) == Token("operator", PyStr(token))

S_EMPTY(token) == Token("empty", PyTrue)

S_INT(token) == Token("int", PyInt(IntOf(token)))

S_FLOAT(token) == Token("float", PyFloat(token))

S_WORD(token) == Token("word", PyStr(token))

S_BINOP(token) == Token("binop", PyStr(token))

S_VALS(token) == Token("val", PyStr(token))

(***************************************************************************)
(* SCANNER: the lexicon in its order; the first pattern that matches at a  *)
(* position wins                                                           *)
(***************************************************************************)
Lexicon == <<"S_OPER", "S_EMPTY", "S_FLOAT", "S_INT", "S_TYPE",
             "S_QUOTED_IDENTIFIER", "S_IDENTIFIER", "S_PCLASS",
             "S_PCLASS_FUNC", "S_BINOP", "S_VALS", "S_WORD">>

MatchLen(rule, s, i) ==
    CASE rule = "S_OPER" -> P_OPER(s, i)
      [] rule = "S_EMPTY" -> P_EMPTY(s, i)
      [] rule = "S_FLOAT" -> P_FLOAT(s, i)
      [] rule = "S_INT" -> P_INT(s, i)
      [] rule = "S_TYPE" -> P_TYPE(s, i)
      [] rule = "S_QUOTED_IDENTIFIER" -> P_QUOTED_IDENTIFIER(s, i)
      [] rule = "S_IDENTIFIER" -> P_IDENTIFIER(s, i)
      [] rule = "S_PCLASS" -> P_PCLASS(s, i)
      [] rule = "S_PCLASS_FUNC" -> P_PCLASS_FUNC(s, i)
      [] rule = "S_BINOP" -> P_BINOP(s, i)
      [] rule = "S_VALS" -> P_VALS(s, i)
      [] rule = "S_WORD" -> P_WORD(s, i)

Action(rule, token) ==
    CASE rule = "S_OPER" -> S_OPER(token)
      [] rule = "S_EMPTY" -> S_EMPTY(token)
      [] rule = "S_FLOAT" -> S_FLOAT(token)
      [] rule = "S_INT" -> S_INT(token)
      [] rule = "S_TYPE" -> S_TYPE(token)
      [] rule = "S_QUOTED_IDENTIFIER" -> S_QUOTED_IDENTIFIER(token)
      [] rule = "S_IDENTIFIER" -> S_IDENTIFIER(token)
      [] rule = "S_PCLASS" -> S_PCLASS(token)
      [] rule = "S_PCLASS_FUNC" -> S_PCLASS_FUNC(token)
      [] rule = "S_BINOP" -> S_BINOP(token)
      [] rule = "S_VALS" -> S_VALS(token)
      [] rule = "S_WORD" -> S_WORD(token)

\* the match length of every pattern of the lexicon at position i
Matches(s, i) == [k \in 1..Len(Lexicon) |-> MatchLen(Lexicon[k], s, i)]

\* the index in Lexicon of the first pattern that matched, 0 if none did
FirstRule(lens) ==
    IF \A k \in 1..Len(lens) : lens[k] = 0 THEN 0
    ELSE CHOOSE k \in 1..Len(lens) :
             lens[k] > 0 /\ \A j \in 1..(k - 1) : lens[j] = 0

\* SCANNER.scan(string) from position i with result so far: scanning stops
\* at the first position where no pattern matches, and what is left is
\* returned beside the tokens.  scan_step is one turn of the loop, lens the
\* match lengths at i.
RECURSIVE scan(_, _, _), scan_step(_, _, _, _)
scan(string, i, result) == scan_step(string, i, result, Matches(string, i))

scan_step(string, i, result, lens) ==
    IF FirstRule(lens) = 0
    THEN [tokens |-> result, rest |-> SubSeq(string, i, Len(string))]
    ELSE scan(string, i + lens[FirstRule(lens)],
              Append(result,
                     Action(Lexicon[FirstRule(lens)],
                            SubSeq(string, i, i + lens[FirstRule(lens)] - 1))))

\* lex(selector): raises only when NO token was produced and input is left
lex_check(scanned) ==
    IF Len(scanned.tokens) = 0 /\ scanned.rest # <<>>
    THEN [raised |-> TRUE, tokens |-> <<>>, rest |-> scanned.rest]
    ELSE [raised |-> FALSE, tokens |-> scanned.tokens, rest |-> scanned.rest]

lex(selector) == lex_check(scan(selector, 1, <<>>))

(***************************************************************************)
(* JSON documents as json.load builds them                                 *)
(***************************************************************************)
JStr(sv) == [cls |-> "unicode", sv |-> sv, keys |-> <<>>, items |-> <<>>]

JInt(sv) == [cls |-> "int", sv |-> sv, keys |-> <<>>, items |-> <<>>]

JFloat(sv) == [cls |-> "float", sv |-> sv, keys |-> <<>>, items |-> <<>>]

JBool(sv) == [cls |-> "bool", sv |-> sv, keys |-> <<>>, items |-> <<>>]

JNull == [cls |-> "NoneType", sv |-> "null", keys |-> <<>>, items |-> <<>>]

\* a Python list: a JSON array, and also the list parse() returns
JList(items) == [cls |-> "list", sv |-> "", keys |-> <<>>, items |-> items]

\* a dict whose iteration order is the order of keys
JDict(keys, items) == [cls |-> "dict", sv |-> "", keys |-> keys, items |-> items]

\* the classes for which isinstance(value, pytype) holds; bool is a
\* subclass of int, so it is a numbers.Number as well
Instances(pytype) ==
    CASE pytype = "basestring" -> {"str", "unicode"}
      [] pytype = "numbers.Number" -> {"int", "long", "float", "bool"}
      [] pytype = "collections.Mapping" -> {"dict"}
      [] pytype = "list" -> {"list"}
      [] pytype = "bool" -> {"bool"}
      [] pytype = "NoneType" -> {"NoneType"}

isinstance(value, pytype) == value.cls \in Instances(pytype)

(***************************************************************************)
(* Node and object_iter                                                    *)
(***************************************************************************)
\* sibling_idx=None, siblings=None: None is no position and no count
None == -1

Node(value, parents, sibling_idx, siblings) ==
    [value |-> value, parents |-> parents, sibling_idx |-> sibling_idx,
     siblings |-> siblings]

\* Yields each node of the object graph in postorder.  An element of a list
\* is visited with the list's own parents, its 1-indexed position and the
\* list's length; a value of a dict with the key appended to parents and no
\* sibling information.
RECURSIVE object_iter(_, _, _, _), iter_list(_, _, _), iter_mapping(_, _, _)
\* object_iter with the node yielded before its descendants
object_iter_preorder(obj, parents, sibling_idx, siblings) ==
    <<Node(obj, parents, sibling_idx, siblings)>>
    \o (IF isinstance(obj, "list") THEN iter_list(obj, parents, 1)
        ELSE IF isinstance(obj, "collections.Mapping")
        THEN iter_mapping(obj, parents, 1)
        ELSE <<>>)

object_iter(obj, parents, sibling_idx, siblings) ==
    (IF isinstance(obj, "list") THEN iter_list(obj, parents, 1)
     ELSE IF isinstance(obj, "collections.Mapping")
     THEN iter_mapping(obj, parents, 1)
     ELSE <<>>)
    \o <<Node(obj, parents, sibling_idx, siblings)>>

\* for i, elem in enumerate(obj): object_iter(elem, parents, i+1, len(obj))
iter_list(obj, parents, i) ==
    IF i > Len(obj.items) THEN <<>>
    ELSE object_iter(obj.items[i], parents, i, Len(obj.items))
         \o iter_list(obj, parents, i + 1)

\* for key in obj: object_iter(obj[key], parents + [key])
iter_mapping(obj, parents, i) ==
    IF i > Len(obj.keys) THEN <<>>
    ELSE object_iter(obj.items[i], Append(parents, obj.keys[i]), None, None)
         \o iter_mapping(obj, parents, i + 1)

(***************************************************************************)
(* Parser: token access                                                    *)
(***************************************************************************)
\* the value of the first token when it is of type_, else False
_peek(tokens, type_) ==
    IF tokens = <<>> THEN PyFalse
    ELSE IF tokens[1].type = type_ THEN tokens[1].value
    ELSE PyFalse

\* pops the first token and returns its value; raises when _peek is false
_match(tokens, type_) ==
    IF ~Truthy(_peek(tokens, type_))
    THEN [raised |-> TRUE, value |-> PyFalse, tokens |-> tokens]
    ELSE [raised |-> FALSE, value |-> tokens[1].value, tokens |-> Tail(tokens)]

(***************************************************************************)
(* Parser: the validators the productions build.  A validator is a record  *)
(* [kind, name, args]; Validate applies it to a node and gives             *)
(* [raised, truth].                                                        *)
(***************************************************************************)
Validator(kind, name, args) == [kind |-> kind, name |-> name, args |-> args]

Verdict(truth) == [raised |-> FALSE, truth |-> truth]

Raises == [raised |-> TRUE, truth |-> FALSE]

\* the map of type_production
TypeMap(type_) ==
    CASE type_ = K_string -> "basestring"
      [] type_ = K_number -> "numbers.Number"
      [] type_ = K_object -> "collections.Mapping"
      [] type_ = K_array -> "list"
      [] type_ = K_boolean -> "bool"
      [] type_ = K_null -> "NoneType"

type_production(type_) == Validator("type", type_, <<>>)

type_validate(type_, node) == Verdict(isinstance(node.value, TypeMap(type_)))

key_production(key) == Validator("key", key, <<>>)

key_validate(key, node) ==
    IF Len(node.parents) # 0
    THEN Verdict(node.parents[Len(node.parents)] = key)
    ELSE Verdict(FALSE)

\* pclass_production raises for a name it does not know, when it is called
pclass_known(pclass) ==
    pclass \in {K_first_child, K_last_child, K_only_child, K_root}

pclass_production(pclass) == Validator("pclass", pclass, <<>>)

pclass_validate(pclass, node) ==
    CASE pclass = K_first_child -> Verdict(node.sibling_idx = 1)
      [] pclass = K_last_child ->
            Verdict(/\ node.siblings # None
                    /\ node.siblings # 0
                    /\ node.sibling_idx = node.siblings)
      [] pclass = K_only_child -> Verdict(node.siblings = 1)
      [] pclass = K_root -> Verdict(Len(node.parents) = 0)

\* the odd | even | int argument test shared by nth-child (on sibling_idx)
\* and nth-last-child (on reverse_idx).  An int argument is read through
\* the truth of _peek(args, 'int'), so an argument of 0 reaches the raise.
nth_test(args, idx) ==
    IF PyEq(_peek(args, "word"), K_odd) THEN Verdict(idx % 2 = 1)
    ELSE IF PyEq(_peek(args, "word"), K_even) THEN Verdict(idx % 2 = 0)
    ELSE IF Truthy(_peek(args, "int"))
         THEN Verdict(idx = _match(args, "int").value.num)
    ELSE Raises

pclass_function_validator(pclass, args, node) ==
    IF pclass = K_nth_child
    THEN IF node.siblings = None \/ node.siblings = 0
         THEN Verdict(FALSE)
         ELSE nth_test(args, node.sibling_idx)
    ELSE IF pclass = K_nth_last_child
    THEN IF node.siblings = None \/ node.siblings = 0
         THEN Verdict(FALSE)
         ELSE nth_test(args, node.siblings - (node.sibling_idx - 1))
    ELSE Raises

Validate(validator, node) ==
    CASE validator.kind = "type" -> type_validate(validator.name, node)
      [] validator.kind = "key" -> key_validate(validator.name, node)
      [] validator.kind = "pclass" -> pclass_validate(validator.name, node)
      [] validator.kind = "pclass_func" ->
            pclass_function_validator(validator.name, validator.args, node)

\* the position of the first ")" operator token, 0 when there is none
RECURSIVE CloseAt(_, _)
CloseAt(tokens, i) ==
    IF i > Len(tokens) THEN 0
    ELSE IF PyEq(_peek(SubSeq(tokens, i, Len(tokens)), "operator"), <<")">>)
    THEN i
    ELSE CloseAt(tokens, i + 1)

\* Parse args and pass them to pclass_function_validator: the tokens after
\* "(" up to the first ")" become args; no "(" or no ")" is a syntax error
pclass_func_production(lexeme, tokens) ==
    IF PyEq(_peek(tokens, "operator"), <<"(">>)
    THEN LET inner == Tail(tokens)
             close == CloseAt(inner, 1)
         IN  IF close = 0
             THEN [raised |-> TRUE, validator |-> Validator("none", <<>>, <<>>),
                   tokens |-> <<>>]
             ELSE [raised |-> FALSE,
                   validator |-> Validator("pclass_func", lexeme,
                                           SubSeq(inner, 1, close - 1)),
                   tokens |-> SubSeq(inner, close + 1, Len(inner))]
    ELSE [raised |-> TRUE, validator |-> Validator("none", <<>>, <<>>),
          tokens |-> tokens]

\* _eval: every validator is applied to every node (the list comprehension
\* inside all() does not stop early), so one raising application fails the
\* whole evaluation
eval_nodes(validators, nodes) ==
    IF \E n \in 1..Len(nodes) : \E v \in 1..Len(validators) :
           Validate(validators[v], nodes[n]).raised
    THEN [raised |-> TRUE, results |-> <<>>]
    ELSE [raised |-> FALSE,
          results |->
              SelectSeq(nodes,
                        LAMBDA node : \A v \in 1..Len(validators) :
                                          Validate(validators[v], node).truth)]

_eval(validators, obj) ==
    eval_nodes(validators, object_iter(obj, <<>>, None, None))

(***************************************************************************)
(* Parser: productions.  A production gives [raised, results, tokens]:     *)
(* raised names the exception ("" for none), tokens is the shared token    *)
(* list as the production leaves it.                                       *)
(***************************************************************************)
Return(results, tokens) ==
    [raised |-> "", results |-> results, tokens |-> tokens]

Raise(what) == [raised |-> what, results |-> <<>>, tokens |-> <<>>]

\* a list of nodes, or the None a function body of `pass` returns
PyList(items) == [isNone |-> FALSE, items |-> items]

PyNone == [isNone |-> TRUE, items |-> <<>>]

\* def parents(self, lhs, rhs): pass
parents(lhs, rhs) == PyNone

\* def ancestors(self, lhs, rhs): pass
ancestors(lhs, rhs) == PyNone

\* results.extend(more), results.extend(None) being a TypeError
extend(results, more, tokens) ==
    IF more.isNone THEN Raise("TypeError")
    ELSE Return(results \o more.items, tokens)

\* The four optional parts of one segment, in order.  Each step takes and
\* gives [raised, validators, tokens] and consumes its token only when it
\* is the next one.
seg_type(st) ==
    IF Truthy(_peek(st.tokens, "type"))
    THEN [raised |-> "",
          validators |->
              Append(st.validators,
                     type_production(_match(st.tokens, "type").value.str)),
          tokens |-> _match(st.tokens, "type").tokens]
    ELSE st

seg_key(st) ==
    IF Truthy(_peek(st.tokens, "identifier"))
    THEN [raised |-> "",
          validators |->
              Append(st.validators,
                     key_production(_match(st.tokens, "identifier").value.str)),
          tokens |-> _match(st.tokens, "identifier").tokens]
    ELSE st

seg_pclass(st) ==
    IF Truthy(_peek(st.tokens, "pclass"))
    THEN IF pclass_known(_match(st.tokens, "pclass").value.str)
         THEN [raised |-> "",
               validators |->
                   Append(st.validators,
                          pclass_production(
                              _match(st.tokens, "pclass").value.str)),
               tokens |-> _match(st.tokens, "pclass").tokens]
         ELSE [raised |-> "Exception: unrecognized pclass",
               validators |-> st.validators, tokens |-> st.tokens]
    ELSE st

seg_func_done(st, func) ==
    IF func.raised
    THEN [raised |-> "Exception: syntax error",
          validators |-> st.validators, tokens |-> func.tokens]
    ELSE [raised |-> "", validators |-> Append(st.validators, func.validator),
          tokens |-> func.tokens]

seg_func(st) ==
    IF st.raised = "" /\ Truthy(_peek(st.tokens, "pclass_func"))
    THEN seg_func_done(st,
             pclass_func_production(
                 _match(st.tokens, "pclass_func").value.str,
                 _match(st.tokens, "pclass_func").tokens))
    ELSE st

segment(tokens) ==
    seg_func(seg_pclass(seg_key(seg_type(
        [raised |-> "", validators |-> <<>>, tokens |-> tokens]))))

\* the combinator after a segment's results, rhs the production's value on
\* the tokens after the combinator
combine_operator(results, operator, rhs) ==
    IF rhs.raised # "" THEN rhs
    ELSE IF PyEq(operator, <<",">>)
    THEN extend(results, PyList(rhs.results), rhs.tokens)
    ELSE IF PyEq(operator, <<">">>)
    THEN extend(results, parents(results, rhs.results), rhs.tokens)
    ELSE IF PyEq(operator, <<"~">>)
    THEN Raise("AttributeError")
    ELSE Return(results, rhs.tokens)

combine_empty(results, rhs) ==
    IF rhs.raised # "" THEN rhs
    ELSE extend(results, ancestors(results, rhs.results), rhs.tokens)

RECURSIVE selector_production(_, _), selector_eval(_, _), selector_combine(_, _, _)
selector_production(obj, tokens) == selector_eval(obj, segment(tokens))

\* results = self._eval(validators, self.obj)
selector_eval(obj, seg) ==
    IF seg.raised # "" THEN Raise(seg.raised)
    ELSE selector_combine(obj, seg.tokens, _eval(seg.validators, obj))

\* if self._peek(tokens, 'operator') ... elif self._peek(tokens, 'empty')
selector_combine(obj, tokens, ev) ==
    IF ev.raised THEN Raise("Exception: syntax error")
    ELSE IF Truthy(_peek(tokens, "operator"))
    THEN combine_operator(ev.results, _match(tokens, "operator").value,
             selector_production(obj, _match(tokens, "operator").tokens))
    ELSE IF Truthy(_peek(tokens, "empty"))
    THEN combine_empty(ev.results,
             selector_production(obj, _match(tokens, "empty").tokens))
    ELSE Return(ev.results, tokens)

\* [node.value for node in nodes]
Values(nodes) == [i \in 1..Len(nodes) |-> nodes[i].value]

\* Parser(obj).parse(tokens): [raised, result]
NoResult == [cls |-> "", sv |-> "", keys |-> <<>>, items |-> <<>>]

\* single results should be returned as a primitive
unwrap(r, results) ==
    IF r.raised # "" THEN [raised |-> r.raised, result |-> NoResult]
    ELSE IF Len(results) = 1 THEN [raised |-> "", result |-> results[1]]
    ELSE [raised |-> "", result |-> JList(results)]

parse_selector(r) == unwrap(r, Values(r.results))

parse(obj, tokens) ==
    IF PyEq(_peek(tokens, "operator"), <<"*">>)
    THEN [raised |-> "",
          result |-> JList(Values(object_iter(obj, <<>>, None, None)))]
    ELSE parse_selector(selector_production(obj, tokens))

(***************************************************************************)
(* The selectors select() is called with                                   *)
(***************************************************************************)
\* *
Sel_star == <<"*">>

\* string
Sel_string == <<"s", "t", "r", "i", "n", "g">>

\* number
Sel_number == <<"n", "u", "m", "b", "e", "r">>

\* boolean
Sel_boolean == <<"b", "o", "o", "l", "e", "a", "n">>

\* null
Sel_null == <<"n", "u", "l", "l">>

\* array
Sel_array == <<"a", "r", "r", "a", "y">>

\* object
Sel_object == <<"o", "b", "j", "e", "c", "t">>

\* .foo
Sel_key_foo == <<".", "f", "o", "o">>

\* .k
Sel_key_k == <<".", "k">>

\* ."foo"
Sel_quoted_foo == <<".", "\"", "f", "o", "o", "\"">>

\* number.foo
Sel_number_key_foo == <<"n", "u", "m", "b", "e", "r", ".", "f", "o", "o">>

\* :root
Sel_root == <<":", "r", "o", "o", "t">>

\* number:root
Sel_number_root == <<"n", "u", "m", "b", "e", "r", ":", "r", "o", "o", "t">>

\* :first-child
Sel_first_child == <<":", "f", "i", "r", "s", "t", "-", "c", "h", "i", "l", "d">>

\* :last-child
Sel_last_child == <<":", "l", "a", "s", "t", "-", "c", "h", "i", "l", "d">>

\* :only-child
Sel_only_child == <<":", "o", "n", "l", "y", "-", "c", "h", "i", "l", "d">>

\* :nth-child(0)
Sel_nth_child_0 == <<":", "n", "t", "h", "-", "c", "h", "i", "l", "d", "(", "0", ")">>

\* :nth-child(1)
Sel_nth_child_1 == <<":", "n", "t", "h", "-", "c", "h", "i", "l", "d", "(", "1", ")">>

\* :nth-child(2)
Sel_nth_child_2 == <<":", "n", "t", "h", "-", "c", "h", "i", "l", "d", "(", "2", ")">>

\* :nth-child(odd)
Sel_nth_child_odd == <<":", "n", "t", "h", "-", "c", "h", "i", "l", "d", "(", "o", "d", "d", ")">>

\* :nth-child(even)
Sel_nth_child_even == <<":", "n", "t", "h", "-", "c", "h", "i", "l", "d", "(", "e", "v", "e", "n", ")">>

\* :nth-last-child(0)
Sel_nth_last_child_0 == <<":", "n", "t", "h", "-", "l", "a", "s", "t", "-", "c", "h", "i", "l", "d", "(", "0", ")">>

\* :nth-last-child(1)
Sel_nth_last_child_1 == <<":", "n", "t", "h", "-", "l", "a", "s", "t", "-", "c", "h", "i", "l", "d", "(", "1", ")">>

\* :nth-last-child(2)
Sel_nth_last_child_2 == <<":", "n", "t", "h", "-", "l", "a", "s", "t", "-", "c", "h", "i", "l", "d", "(", "2", ")">>

\* :nth-last-child(odd)
Sel_nth_last_child_odd == <<":", "n", "t", "h", "-", "l", "a", "s", "t", "-", "c", "h", "i", "l", "d", "(", "o", "d", "d", ")">>

\* :nth-last-child(even)
Sel_nth_last_child_even == <<":", "n", "t", "h", "-", "l", "a", "s", "t", "-", "c", "h", "i", "l", "d", "(", "e", "v", "e", "n", ")">>

\* number:nth-child(1)
Sel_number_nth_child_1 == <<"n", "u", "m", "b", "e", "r", ":", "n", "t", "h", "-", "c", "h", "i", "l", "d", "(", "1", ")">>

\* number:nth-last-child(1)
Sel_number_nth_last_child_1 == <<"n", "u", "m", "b", "e", "r", ":", "n", "t", "h", "-", "l", "a", "s", "t", "-", "c", "h", "i", "l", "d", "(", "1", ")">>

\* number:nth-child(odd)
Sel_number_nth_child_odd == <<"n", "u", "m", "b", "e", "r", ":", "n", "t", "h", "-", "c", "h", "i", "l", "d", "(", "o", "d", "d", ")">>

\* :nth-child(1.5)
Sel_nth_child_float == <<":", "n", "t", "h", "-", "c", "h", "i", "l", "d", "(", "1", ".", "5", ")">>

\* :nth-child(1
Sel_nth_child_open == <<":", "n", "t", "h", "-", "c", "h", "i", "l", "d", "(", "1">>

\* string, number
Sel_string_comma_sp_number == <<"s", "t", "r", "i", "n", "g", ",", " ", "n", "u", "m", "b", "e", "r">>

\* string,number
Sel_string_comma_number == <<"s", "t", "r", "i", "n", "g", ",", "n", "u", "m", "b", "e", "r">>

\* number,number
Sel_number_comma_number == <<"n", "u", "m", "b", "e", "r", ",", "n", "u", "m", "b", "e", "r">>

\* object string
Sel_object_sp_string == <<"o", "b", "j", "e", "c", "t", " ", "s", "t", "r", "i", "n", "g">>

\* object > string
Sel_object_gt_string == <<"o", "b", "j", "e", "c", "t", " ", ">", " ", "s", "t", "r", "i", "n", "g">>

\* object>string
Sel_object_gtns_string == <<"o", "b", "j", "e", "c", "t", ">", "s", "t", "r", "i", "n", "g">>

\* number~string
Sel_number_tilde_string == <<"n", "u", "m", "b", "e", "r", "~", "s", "t", "r", "i", "n", "g">>

\* object:has(.foo)
Sel_object_has_foo == <<"o", "b", "j", "e", "c", "t", ":", "h", "a", "s", "(", ".", "f", "o", "o", ")">>

\* foo:bar
Sel_foo_bar == <<"f", "o", "o", ":", "b", "a", "r">>

\* :bar
Sel_bar == <<":", "b", "a", "r">>

\* string:bar
Sel_string_bar == <<"s", "t", "r", "i", "n", "g", ":", "b", "a", "r">>

\* .foo!
Sel_key_foo_bang == <<".", "f", "o", "o", "!">>

\* (the empty string)
Sel_empty == <<>>

TypeSelectors ==
    {Sel_string, Sel_number, Sel_boolean, Sel_null, Sel_array, Sel_object}

Selectors ==
    {Sel_star, Sel_string, Sel_number, Sel_boolean, Sel_null, Sel_array,
     Sel_object, Sel_key_foo, Sel_key_k, Sel_quoted_foo,
     Sel_number_key_foo, Sel_root, Sel_number_root, Sel_first_child,
     Sel_last_child, Sel_only_child, Sel_nth_child_0, Sel_nth_child_1,
     Sel_nth_child_2, Sel_nth_child_odd, Sel_nth_child_even,
     Sel_nth_last_child_0, Sel_nth_last_child_1, Sel_nth_last_child_2,
     Sel_nth_last_child_odd, Sel_nth_last_child_even,
     Sel_number_nth_child_1, Sel_number_nth_last_child_1,
     Sel_number_nth_child_odd, Sel_nth_child_float, Sel_nth_child_open,
     Sel_string_comma_sp_number, Sel_string_comma_number,
     Sel_number_comma_number, Sel_object_sp_string, Sel_object_gt_string,
     Sel_object_gtns_string, Sel_number_tilde_string, Sel_object_has_foo,
     Sel_foo_bar, Sel_bar, Sel_string_bar, Sel_key_foo_bang, Sel_empty}

(***************************************************************************)
(* The documents select() is called with                                   *)
(***************************************************************************)
\* the most elements of a generated list and the most keys of a generated
\* dict
MaxChildren == 2

Key_foo == <<"f", "o", "o">>
Key_bar == <<"b", "a", "r">>
Key_k == <<"k">>
Key_a == <<"a">>
Key_b == <<"b">>

\* the keys generated dicts draw from
Keys == {Key_foo, Key_k, Key_a}

\* the values generated lists and dicts hold
Elems ==
    {JInt("1"), JStr("x"), JBool("true"),
     JList(<<JInt("1"), JStr("x")>>),
     JDict(<<Key_foo>>, <<JInt("1")>>)}

\* sequences over S of length 0..n
SeqsUpTo(S, n) == UNION {[1..m -> S] : m \in 0..n}

\* key lists: a dict's keys are distinct; both iteration orders occur
KeyLists ==
    {ks \in SeqsUpTo(Keys, MaxChildren) :
        \A i, j \in 1..Len(ks) : i # j => ks[i] # ks[j]}

GeneratedDocs ==
    {JList(items) : items \in SeqsUpTo(Elems, MaxChildren)}
    \cup UNION {{JDict(ks, items) : items \in [1..Len(ks) -> Elems]} :
                ks \in KeyLists}

\* [10, 20, 30]
Doc_10_20_30 == JList(<<JInt("10"), JInt("20"), JInt("30")>>)

\* {"foo": 1, "bar": 2}
Doc_foo_bar == JDict(<<Key_foo, Key_bar>>, <<JInt("1"), JInt("2")>>)

\* {"a": "x", "b": 1}
Doc_a_x_b_1 == JDict(<<Key_a, Key_b>>, <<JStr("x"), JInt("1")>>)

\* {"a": {"b": "x"}}
Doc_a_b_x == JDict(<<Key_a>>, <<JDict(<<Key_b>>, <<JStr("x")>>)>>)

\* {"a": "x"}
Doc_a_x == JDict(<<Key_a>>, <<JStr("x")>>)

\* {"a": {"foo": 1}, "b": {}}
Doc_has ==
    JDict(<<Key_a, Key_b>>,
          <<JDict(<<Key_foo>>, <<JInt("1")>>), JDict(<<>>, <<>>)>>)

\* {"k": [1, 2]}
Doc_k_list == JDict(<<Key_k>>, <<JList(<<JInt("1"), JInt("2")>>)>>)

\* {"a": [{"foo": [1, null]}, 2.5]}
Doc_deep ==
    JDict(<<Key_a>>,
          <<JList(<<JDict(<<Key_foo>>, <<JList(<<JInt("1"), JNull>>)>>),
                    JFloat("2.5")>>)>>)

ExampleDocs ==
    {Doc_10_20_30, Doc_foo_bar, Doc_a_x_b_1, Doc_a_b_x, Doc_a_x, Doc_has,
     Doc_k_list, Doc_deep}

\* any JSON value is a legal document, scalars at top level included
ScalarDocs == {JInt("1"), JFloat("2.5"), JStr("x"), JBool("true"), JNull}

Documents == ScalarDocs \cup GeneratedDocs \cup ExampleDocs

(***************************************************************************)
(* select(selector, obj): parser = Parser(obj); parser.parse(lex(selector))*)
(***************************************************************************)
VARIABLES selector, obj, pc, tokens, result, raised

vars == <<selector, obj, pc, tokens, result, raised>>

Init ==
    /\ selector \in Selectors
    /\ obj \in Documents
    /\ pc = "lex"
    /\ tokens = <<>>
    /\ result = NoResult
    /\ raised = ""

\* lex(selector) returns the tokens
LexReturn ==
    /\ pc = "lex"
    /\ \E lexed \in {lex(selector)} :
           /\ ~lexed.raised
           /\ tokens' = lexed.tokens
    /\ pc' = "parse"
    /\ UNCHANGED <<selector, obj, result, raised>>

\* lex(selector) raises Exception("leftover input: ...")
LexRaise ==
    /\ pc = "lex"
    /\ \E lexed \in {lex(selector)} : lexed.raised
    /\ raised' = "Exception: leftover input"
    /\ pc' = "raised"
    /\ UNCHANGED <<selector, obj, tokens, result>>

\* parser.parse(tokens) returns; select returns its value
ParseReturn ==
    /\ pc = "parse"
    /\ \E parsed \in {parse(obj, tokens)} :
           /\ parsed.raised = ""
           /\ result' = parsed.result
    /\ pc' = "returned"
    /\ UNCHANGED <<selector, obj, tokens, raised>>

\* parser.parse(tokens) raises; the exception leaves select
ParseRaise ==
    /\ pc = "parse"
    /\ \E parsed \in {parse(obj, tokens)} :
           /\ parsed.raised # ""
           /\ raised' = parsed.raised
    /\ pc' = "raised"
    /\ UNCHANGED <<selector, obj, tokens, result>>

Next == LexReturn \/ LexRaise \/ ParseReturn \/ ParseRaise

Spec == Init /\ [][Next]_vars

TypeOK ==
    /\ pc \in {"lex", "parse", "returned", "raised"}
    /\ (pc = "raised") = (raised # "")
    /\ pc # "returned" => result = NoResult

(***************************************************************************)
(* The JSON tree of a document, for stating what a selector should match:  *)
(* one entry per JSON value, in postorder, with the value's path (child    *)
(* positions from the root), what its parent is, its key when it is a      *)
(* property value, and its position and sibling count; up is the kind of   *)
(* the parent, <<>> for the root                                            *)
(***************************************************************************)
\* the JSON kind of a value, by the name its type keyword has
JsonKind(value) ==
    CASE value.cls \in {"str", "unicode"} -> K_string
      [] value.cls \in {"int", "long", "float"} -> K_number
      [] value.cls = "bool" -> K_boolean
      [] value.cls = "NoneType" -> K_null
      [] value.cls = "list" -> K_array
      [] value.cls = "dict" -> K_object

RECURSIVE JsonNodes(_, _), JsonChildren(_, _, _)
JsonNodes(d, self) == JsonChildren(d, self.path, 1) \o <<self>>

JsonChildren(d, path, i) ==
    IF i > Len(d.items) THEN <<>>
    ELSE JsonNodes(d.items[i],
                   [value |-> d.items[i], path |-> Append(path, i),
                    up |-> JsonKind(d),
                    key |-> IF JsonKind(d) = K_object THEN d.keys[i] ELSE <<>>,
                    pos |-> i, count |-> Len(d.items)])
         \o JsonChildren(d, path, i + 1)

AllNodes(d) ==
    JsonNodes(d, [value |-> d, path |-> <<>>, up |-> <<>>, key |-> <<>>,
                  pos |-> 0, count |-> 0])

\* p is a strict ancestor of q
StrictAncestor(p, q) ==
    Len(p.path) < Len(q.path) /\ SubSeq(q.path, 1, Len(p.path)) = p.path

\* p is the parent of q
ParentOf(p, q) == StrictAncestor(p, q) /\ Len(q.path) = Len(p.path) + 1

Count(v, s) == Cardinality({i \in 1..Len(s) : s[i] = v})

SameBag(s, t) ==
    /\ Len(s) = Len(t)
    /\ \A i \in 1..Len(s) : Count(s[i], s) = Count(s[i], t)

\* select returned, and returned the values of the nodes `matched`: the
\* value itself when there is one, else a sequence of them in any order
Returned(matched) ==
    /\ pc = "returned"
    /\ IF Len(matched) = 1 THEN result = matched[1].value
       ELSE result.cls = "list" /\ SameBag(result.items, Values(matched))

\* select(selector, obj) is over
Finished == pc \in {"returned", "raised"}

(***************************************************************************)
(* C1                                                                      *)
(***************************************************************************)
RECURSIVE ValueCount(_), SumCounts(_, _)
ValueCount(d) == 1 + SumCounts(d.items, 1)

SumCounts(items, i) ==
    IF i > Len(items) THEN 0
    ELSE ValueCount(items[i]) + SumCounts(items, i + 1)

RECURSIVE Postorder(_), PostorderAll(_, _)
Postorder(d) == PostorderAll(d.items, 1) \o <<d>>

PostorderAll(items, i) ==
    IF i > Len(items) THEN <<>>
    ELSE Postorder(items[i]) \o PostorderAll(items, i + 1)

\* C1: select("*", d) returns, for every document d, a sequence with one
\* entry per JSON value of d, so as many entries as d has values, in
\* postorder: the descendants of a composite before it, d last.
C1_StarIsPostorder ==
    (Finished /\ selector = Sel_star) =>
        /\ pc = "returned"
        /\ result.cls = "list"
        /\ Len(result.items) = ValueCount(obj)
        /\ result.items = Postorder(obj)
        /\ result.items[Len(result.items)] = obj

C1_Witness ==
    /\ pc = "returned"
    /\ selector = Sel_star
    /\ obj = Doc_deep
    /\ Len(result.items) = 7

(***************************************************************************)
(* C2                                                                      *)
(***************************************************************************)
\* the selectors whose match set is all nodes, or the nodes of a kind no
\* Python class shares with another kind
C2_Selectors == {Sel_star, Sel_string, Sel_null, Sel_array, Sel_object}

C2_Matched ==
    IF selector = Sel_star THEN AllNodes(obj)
    ELSE SelectSeq(AllNodes(obj),
                   LAMBDA n : JsonKind(n.value) = tokens[1].value.str)

\* C2: whenever select succeeds, "*" included: exactly one matched node
\* gives that value itself, not a one-element sequence; none or several
\* give a sequence of the matched values.
C2_SingleResultUnwrapped ==
    (pc = "returned" /\ selector \in C2_Selectors) => Returned(C2_Matched)

(***************************************************************************)
(* C3                                                                      *)
(***************************************************************************)
\* the type keywords whose validator a value satisfies
TypesOf(value) ==
    {T \in {K_string, K_number, K_boolean, K_null, K_array, K_object} :
        type_validate(T, Node(value, <<>>, None, None)).truth}

\* C3: a type keyword T matches exactly the nodes whose value is of JSON
\* kind T, and a value T matches is matched by no other type keyword.
C3_TypeMatchesKind ==
    (Finished /\ selector \in TypeSelectors) =>
        /\ Returned(SelectSeq(AllNodes(obj),
                      LAMBDA n : JsonKind(n.value) = tokens[1].value.str))
        /\ \A i \in 1..Len(AllNodes(obj)) :
               tokens[1].value.str \in TypesOf(AllNodes(obj)[i].value)
                   => TypesOf(AllNodes(obj)[i].value) = {tokens[1].value.str}

(***************************************************************************)
(* C4                                                                      *)
(***************************************************************************)
C4_Selectors == {Sel_key_foo, Sel_key_k}

\* C4: .k matches a node exactly when the node is the value of a property
\* named k of an object: not the root, not an element of an array.
C4_KeyMatchesPropertyValues ==
    (Finished /\ selector \in C4_Selectors) =>
        Returned(SelectSeq(AllNodes(obj),
                     LAMBDA n : n.up = K_object /\ n.key = tokens[1].value.str))

(***************************************************************************)
(* C5                                                                      *)
(***************************************************************************)
\* C5: :root matches exactly one node, the document itself.
C5_RootIsTheDocument ==
    (Finished /\ selector = Sel_root) => (pc = "returned" /\ result = obj)

(***************************************************************************)
(* C6                                                                      *)
(***************************************************************************)
\* what each selector asks: of the position (last FALSE) or of the reverse
\* index (last TRUE); that it is odd, even, or equal to n
C6_Cases ==
    {[sel |-> Sel_nth_child_0, last |-> FALSE, test |-> "int", n |-> 0],
     [sel |-> Sel_nth_child_1, last |-> FALSE, test |-> "int", n |-> 1],
     [sel |-> Sel_nth_child_2, last |-> FALSE, test |-> "int", n |-> 2],
     [sel |-> Sel_nth_child_odd, last |-> FALSE, test |-> "odd", n |-> 0],
     [sel |-> Sel_nth_child_even, last |-> FALSE, test |-> "even", n |-> 0],
     [sel |-> Sel_nth_last_child_0, last |-> TRUE, test |-> "int", n |-> 0],
     [sel |-> Sel_nth_last_child_1, last |-> TRUE, test |-> "int", n |-> 1],
     [sel |-> Sel_nth_last_child_2, last |-> TRUE, test |-> "int", n |-> 2],
     [sel |-> Sel_nth_last_child_odd, last |-> TRUE, test |-> "odd", n |-> 0],
     [sel |-> Sel_nth_last_child_even, last |-> TRUE, test |-> "even",
      n |-> 0]}

C6_Holds(c, idx) ==
    CASE c.test = "odd" -> idx % 2 = 1
      [] c.test = "even" -> idx % 2 = 0
      [] c.test = "int" -> idx = c.n

C6_Matched(c) ==
    SelectSeq(AllNodes(obj),
              LAMBDA nd :
                  /\ nd.up = K_array
                  /\ C6_Holds(c, IF c.last THEN nd.count - (nd.pos - 1)
                                 ELSE nd.pos))

\* C6: :nth-child(N), N >= 0, matches the array elements at 1-indexed
\* position N, odd and even those at odd and even positions, and
\* :nth-last-child the same of siblingCount - (position - 1); a node that is
\* no array element is not matched, and no error is raised.  On [10,20,30]
\* number:nth-child(1) is 10, number:nth-last-child(1) is 30 and
\* number:nth-child(odd) is [10,30].
C6_NthChild ==
    /\ \A c \in C6_Cases :
           (Finished /\ selector = c.sel) => Returned(C6_Matched(c))
    /\ (Finished /\ obj = Doc_10_20_30) =>
           /\ selector = Sel_number_nth_child_1 =>
                  pc = "returned" /\ result = JInt("10")
           /\ selector = Sel_number_nth_last_child_1 =>
                  pc = "returned" /\ result = JInt("30")
           /\ selector = Sel_number_nth_child_odd =>
                  pc = "returned"
                  /\ result = JList(<<JInt("10"), JInt("30")>>)

(***************************************************************************)
(* C7                                                                      *)
(***************************************************************************)
\* C7: "S1, S2" succeeds and returns the nodes matching S1 or S2, each
\* once; "string, number" on {"a": "x", "b": 1} is set-equal to ["x", 1].
C7_Union ==
    (Finished /\ selector = Sel_string_comma_sp_number) =>
        /\ Returned(SelectSeq(AllNodes(obj),
                      LAMBDA n : JsonKind(n.value) \in {K_string, K_number}))
        /\ obj = Doc_a_x_b_1 =>
               SameBag(result.items, <<JStr("x"), JInt("1")>>)

(***************************************************************************)
(* C8                                                                      *)
(***************************************************************************)
C8_Under(n, related(_, _)) ==
    /\ JsonKind(n.value) = K_string
    /\ \E i \in 1..Len(AllNodes(obj)) :
           /\ JsonKind(AllNodes(obj)[i].value) = K_object
           /\ related(AllNodes(obj)[i], n)

\* C8: "T U" returns the nodes matching U with a strict ancestor matching
\* T, "T > U" those whose parent matches T; "object string" on
\* {"a": {"b": "x"}} and "object > string" on {"a": "x"} return "x".
C8_AncestorAndParent ==
    /\ (Finished /\ selector = Sel_object_sp_string) =>
           Returned(SelectSeq(AllNodes(obj),
                        LAMBDA n : C8_Under(n, StrictAncestor)))
    /\ (Finished /\ selector \in {Sel_object_gt_string,
                                  Sel_object_gtns_string}) =>
           Returned(SelectSeq(AllNodes(obj), LAMBDA n : C8_Under(n, ParentOf)))
    /\ (Finished /\ selector = Sel_object_sp_string /\ obj = Doc_a_b_x) =>
           result = JStr("x")
    /\ (Finished /\ selector = Sel_object_gt_string /\ obj = Doc_a_x) =>
           result = JStr("x")

(***************************************************************************)
(* C9                                                                      *)
(***************************************************************************)
\* n is an object with a node named foo somewhere in its subtree
C9_HasFoo(n) ==
    /\ JsonKind(n.value) = K_object
    /\ \E i \in 1..Len(AllNodes(obj)) :
           /\ StrictAncestor(n, AllNodes(obj)[i])
           /\ AllNodes(obj)[i].up = K_object
           /\ AllNodes(obj)[i].key = Key_foo

\* C9: "T:has(S)" succeeds and returns the nodes of kind T with a node
\* satisfying S in their subtree; "object:has(.foo)" on
\* {"a": {"foo": 1}, "b": {}} returns {"foo": 1}.
C9_Has ==
    (Finished /\ selector = Sel_object_has_foo) =>
        /\ Returned(SelectSeq(AllNodes(obj), C9_HasFoo))
        /\ obj = Doc_has => result = JDict(<<Key_foo>>, <<JInt("1")>>)

(***************************************************************************)
(* C10                                                                     *)
(***************************************************************************)
\* C10: when the scanner stops at a position where no lexical rule matches
\* and input is left, tokens before that position or not, select fails: it
\* returns no result computed from the scanned prefix.
C10_LeftoverInputFails ==
    (Finished /\ scan(selector, 1, <<>>).rest # <<>>) => pc = "raised"

====
